---- MODULE Spec2Model ----
(***************************************************************************)
(* A model of tar-rs's Streamer (src/src/streamer.rs): the entry queue     *)
(* (four maps keyed by entry index), the header preparer and the pull-mode *)
(* read engine.                                                            *)
(*                                                                         *)
(* Byte strings are kept run-length encoded.  A run stands for n           *)
(* consecutive bytes of one origin, starting at offset o of that origin:   *)
(*   t = "Z"  zero bytes                                                   *)
(*   t = "H"  bytes of a serialized 512-byte main header                   *)
(*   t = "L" / "K"  bytes of a GNU long-name / long-link extension header  *)
(*   t = "N"  the bytes of a path                                          *)
(*   t = "D"  payload bytes of a caller-supplied stream                    *)
(*   t = "F"  payload bytes of a file of the filesystem                    *)
(* Two byte strings are equal iff their normalised run lists are equal.    *)
(***************************************************************************)
EXTENDS Integers, Sequences, FiniteSets, TLC

VARIABLES
    mode,                   \* Streamer.mode
    follow,                 \* Streamer.follow
    index_counter,          \* Streamer.index_counter
    stream_files,           \* Streamer.stream_files         (index -> StreamFile)
    stream_data,            \* Streamer.stream_data          (index -> StreamData)
    stream_special_file,    \* Streamer.stream_special_file  (index -> StreamSpecialFile)
    stream_link,            \* Streamer.stream_link          (index -> StreamLink)
    current_index,          \* streamer_metadata.current_index
    finish_bytes_remaining, \* streamer_metadata.finish_bytes_remaining
    read_bytes,             \* streamer_metadata.read_bytes
    fs,                     \* the live filesystem: path -> node
    out,                    \* observation: every byte returned by a successful read, in order
    last,                   \* observation: the last call and its result; whether a read
                            \* was made (started) or failed (failed); the error of the
                            \* failed read if the filesystem is as it was then (failure)
    queued,                 \* observation: what each append call queued, as enqueued
    hdr_calls,              \* observation: header encodings performed per entry index
    marks,                  \* observation: marks[i] is the number of bytes of entries
                            \* (all but trailer bytes) returned when read moved past
                            \* index i - 1
    fs_changes              \* observation: number of filesystem changes so far

vars == <<mode, follow, index_counter, stream_files, stream_data, stream_special_file,
          stream_link, current_index, finish_bytes_remaining, read_bytes, fs, out, last,
          queued, hdr_calls, marks, fs_changes>>

(***************************************************************************)
(* Program constants                                                       *)
(***************************************************************************)
BLOCK == 512
FINISH_BYTES == 1024
NameCap == 100
LinkCap == 100

(***************************************************************************)
(* Bounds of the model                                                     *)
(***************************************************************************)
MaxEntries == 2
MaxFsChanges == 1
LongLen == 200
SmallBuf == 300
BigBuf == 5000

Min(a, b) == IF a < b THEN a ELSE b

(***************************************************************************)
(* Paths: a sequence of components, each a label and its byte length.      *)
(***************************************************************************)
Comp(s, n) == [s |-> s, n |-> n]
EmptyPath == <<>>

RECURSIVE CompBytes(_)
CompBytes(p) == IF p = <<>> THEN 0 ELSE Head(p).n + CompBytes(Tail(p))

\* path2bytes on unix: the raw bytes; only their number matters here.
path2bytes_len(p) == IF p = <<>> THEN 0 ELSE CompBytes(p) + (Len(p) - 1)

\* Path::join
Join(a, b) == a \o b

\* Path::strip_prefix
StripPrefix(p, pre) == SubSeq(p, Len(pre) + 1, Len(p))

HasPrefix(p, pre) == Len(pre) <= Len(p) /\ SubSeq(p, 1, Len(pre)) = pre

\* The first max bytes of a path (data[..max]).
RECURSIVE TruncPath(_, _)
TruncPath(p, max) ==
    IF p = <<>> \/ max <= 0 THEN <<>>
    ELSE IF Head(p).n >= max THEN <<Comp(Head(p).s, max)>>
    ELSE <<Head(p)>> \o TruncPath(Tail(p), max - Head(p).n - 1)

(***************************************************************************)
(* Byte strings                                                            *)
(***************************************************************************)
NoDesc == [name |-> <<>>, link |-> <<>>, kind |-> "", size |-> 0, mode |-> "", id |-> 0]

Run(t, d, o, n) == [t |-> t, d |-> d, o |-> o, n |-> n]

Bytes(t, d, n) == IF n = 0 THEN <<>> ELSE <<Run(t, d, 0, n)>>

Zeros(n) == Bytes("Z", NoDesc, n)

RECURSIVE BLen(_)
BLen(b) == IF b = <<>> THEN 0 ELSE Head(b).n + BLen(Tail(b))

Mergeable(r1, r2) ==
    /\ r1.t = r2.t
    /\ r1.d = r2.d
    /\ (r1.t = "Z" \/ r1.o + r1.n = r2.o)

\* Vec::append / copy into the destination buffer
Cat(a, b) ==
    IF a = <<>> THEN b
    ELSE IF b = <<>> THEN a
    ELSE IF Mergeable(a[Len(a)], b[1])
         THEN SubSeq(a, 1, Len(a) - 1)
              \o <<[a[Len(a)] EXCEPT !.n = @ + b[1].n]>>
              \o Tail(b)
         ELSE a \o b

\* The first k bytes of b
RECURSIVE TakeB(_, _)
TakeB(b, k) ==
    IF k <= 0 \/ b = <<>> THEN <<>>
    ELSE IF Head(b).n <= k THEN <<Head(b)>> \o TakeB(Tail(b), k - Head(b).n)
    ELSE <<[Head(b) EXCEPT !.n = k]>>

\* b without its first k bytes (Vec::drain(..k) leaves this behind)
RECURSIVE DropB(_, _)
DropB(b, k) ==
    IF k <= 0 \/ b = <<>> THEN b
    ELSE IF Head(b).n <= k THEN DropB(Tail(b), k - Head(b).n)
    ELSE <<[Head(b) EXCEPT !.n = @ - k,
                           !.o = IF Head(b).t = "Z" THEN 0 ELSE @ + k]>> \o Tail(b)

\* Option<Vec<u8>>
None == [some |-> FALSE, v |-> <<>>]
Some(v) == [some |-> TRUE, v |-> v]

(***************************************************************************)
(* The filesystem.  A node is what stat reports about a path.              *)
(***************************************************************************)
Node(kind, size, target) == [kind |-> kind, size |-> size, target |-> target]
Missing == Node("none", 0, <<>>)

P_f == <<Comp("f", 1)>>
P_a == <<Comp("a", 1)>>
P_ab == <<Comp("a", 1), Comp("b.txt", 5)>>
P_ac == <<Comp("a", 1), Comp("c", 1)>>
P_s == <<Comp("s", 1)>>
P_sq == <<Comp("s", 1), Comp("q", 1)>>
P_l == <<Comp("l", 1)>>
P_x == <<Comp("x", 1)>>
P_t == <<Comp("t", 1)>>
P_td == <<Comp("t", 1), Comp("d", 1)>>
P_tl == <<Comp("t", 1), Comp("l", 1)>>
P_tu == <<Comp("t", 1), Comp("u", 1)>>
P_tuv == <<Comp("t", 1), Comp("u", 1), Comp("v", 1)>>

FileSize == 700
SmallFileSize == 3

FsPaths == {P_f, P_a, P_ab, P_ac, P_s, P_sq, P_l, P_x, P_t, P_td, P_tl, P_tu, P_tuv}

InitFs ==
    [p \in FsPaths |->
        CASE p = P_f -> Node("file", FileSize, <<>>)
          [] p = P_a -> Node("dir", 0, <<>>)
          [] p = P_ab -> Node("file", SmallFileSize, <<>>)
          [] p = P_ac -> Node("dir", 0, <<>>)
          [] p = P_s -> Node("dir", 0, <<>>)
          [] p = P_sq -> Node("fifo", 0, <<>>)
          [] p = P_l -> Node("symlink", 0, P_f)
          [] p = P_t -> Node("dir", 0, <<>>)
          [] p = P_td -> Node("symlink", 0, P_ac)
          [] p = P_tl -> Node("symlink", 0, P_f)
          [] p = P_tu -> Node("dir", 0, <<>>)
          [] p = P_tuv -> Node("file", SmallFileSize, <<>>)
          [] OTHER -> Missing]

Lookup(f, p) == IF p \in DOMAIN f THEN f[p] ELSE Missing

Ok(v) == [err |-> FALSE, v |-> v, e |-> ""]
Err(e) == [err |-> TRUE, v |-> Missing, e |-> e]

\* fs::metadata follows a symlink, fs::symlink_metadata does not.
get_stat(f, p, fol) ==
    LET n == Lookup(f, p)
        t == IF fol /\ n.kind = "symlink" THEN Lookup(f, n.target) ELSE n
    IN IF t.kind = "none" THEN Err("metadata") ELSE Ok(t)

is_file(stat) == stat.kind = "file"

\* fs::read_dir: the paths directly below p
Children(f, p) ==
    {c \in DOMAIN f : Len(c) = Len(p) + 1 /\ HasPrefix(c, p) /\ f[c].kind # "none"}

(***************************************************************************)
(* The Header collaborator (crate::header).  A header is described by the  *)
(* fields the streamer sets; its serialization is 512 bytes of origin "H". *)
(***************************************************************************)
BadComp == "\\bad"
EncodingOk(p) == \A i \in 1..Len(p) : p[i].s # BadComp

new_gnu == NoDesc

\* A caller-built header (append, append_data, append_link)
UserHeader(id) == [NoDesc EXCEPT !.id = id]

set_path_ok(p) == EncodingOk(p) /\ path2bytes_len(p) <= NameCap

set_link_name_ok(p) == EncodingOk(p) /\ path2bytes_len(p) <= LinkCap

set_metadata_in_mode(h, stat, m) ==
    [h EXCEPT !.kind = stat.kind, !.size = stat.size, !.mode = m]

set_entry_type(h, k) == [h EXCEPT !.kind = k]

as_bytes(h) == Bytes("H", h, BLOCK)

\* prepare_header(size, type): a GNU extension header
prepare_header(size, t) == Bytes(t, [NoDesc EXCEPT !.size = size], BLOCK)

(***************************************************************************)
(* Header preparer                                                         *)
(***************************************************************************)
\* ExtData filling up to the next block even when the data ends on one.
ExtData_alwayspad(p) ==
    LET len == path2bytes_len(p)
        remaining == BLOCK - ((len + 1) % BLOCK)
    IN Cat(Bytes("N", [NoDesc EXCEPT !.name = p], len), Zeros(1 + remaining))

\* The padded data block that follows an extension header.
ExtData(p) ==
    LET len == path2bytes_len(p)
        remaining == BLOCK - ((len + 1) % BLOCK)
    IN Cat(Bytes("N", [NoDesc EXCEPT !.name = p], len),
           Zeros(1 + (IF remaining < BLOCK THEN remaining ELSE 0)))

HdrOk(h, ext) == [err |-> FALSE, h |-> h, ext |-> ext, e |-> ""]
HdrErr(h, e) == [err |-> TRUE, h |-> h, ext |-> None, e |-> e]

\* prepare_header_path taking a name that fills the whole field for too long.
prepare_header_path_strict(h, p) ==
    IF set_path_ok(p) /\ path2bytes_len(p) < NameCap THEN HdrOk([h EXCEPT !.name = p], None)
    ELSE IF path2bytes_len(p) < NameCap THEN HdrErr(h, "set_path")
    ELSE LET truncated == TruncPath(p, NameCap - 1)
         IN IF set_path_ok(truncated)
            THEN HdrOk([h EXCEPT !.name = truncated],
                       Some(Cat(prepare_header(path2bytes_len(p), "L"), ExtData(p))))
            ELSE HdrErr(h, "set_path")

\* lines 851-890
prepare_header_path(h, p) ==
    IF set_path_ok(p) THEN HdrOk([h EXCEPT !.name = p], None)
    ELSE IF path2bytes_len(p) < NameCap THEN HdrErr(h, "set_path")
    ELSE LET truncated == TruncPath(p, NameCap)
         IN IF set_path_ok(truncated)
            THEN HdrOk([h EXCEPT !.name = truncated],
                       Some(Cat(prepare_header(path2bytes_len(p), "L"), ExtData(p))))
            ELSE HdrErr(h, "set_path")

\* lines 892-914
prepare_header_link(h, p) ==
    IF set_link_name_ok(p) THEN HdrOk([h EXCEPT !.link = p], None)
    ELSE IF path2bytes_len(p) < LinkCap THEN HdrErr(h, "set_link_name")
    ELSE HdrOk(h, Some(Cat(prepare_header(path2bytes_len(p), "K"), ExtData(p))))

EncOk(b) == [err |-> FALSE, bytes |-> b, e |-> ""]
EncErr(e) == [err |-> TRUE, bytes |-> <<>>, e |-> e]

\* Option<&Path>::None (no alternative name)
NoName == <<[s |-> "None", n |-> 0]>>

\* lines 772-778, with the extension prefixes a and k found so far
EncodeWith(a, k) ==
    IF k.err THEN EncErr(k.e)
    ELSE EncOk(Cat(Cat(a.ext.v, k.ext.v), as_bytes(k.h)))

\* lines 766-775, with the result a of prepare_header_path
FileHeaderWithPath(stat, a, m) ==
    IF a.err THEN EncErr(a.e)
    ELSE EncodeWith(a, IF stat.kind = "symlink"
                       THEN prepare_header_link(set_metadata_in_mode(a.h, stat, m),
                                                stat.target)
                       ELSE HdrOk(set_metadata_in_mode(a.h, stat, m), None))

\* lines 759-766, with the result of get_stat
FileHeaderWithStat(stat, path, name, m) ==
    IF stat.err THEN EncErr(stat.e)
    ELSE FileHeaderWithPath(stat.v,
                            prepare_header_path(new_gnu,
                                                IF name = NoName THEN path ELSE name),
                            m)

\* lines 753-779
prepare_file_header(f, path, name, m, fol) ==
    FileHeaderWithStat(get_stat(f, path, fol), path, name, m)

\* lines 832-845, with the result a of prepare_header_path
SpecialHeaderWithPath(a, k) ==
    IF a.err THEN EncErr(a.e)
    ELSE EncOk(Cat(a.ext.v, as_bytes(set_entry_type(a.h, k))))

\* lines 809-832, with the result of get_stat
SpecialHeaderWithStat(stat, path, m) ==
    IF stat.err THEN EncErr(stat.e)
    ELSE IF stat.v.kind = "socket" THEN EncErr("socket can not be archived")
    ELSE IF stat.v.kind \notin {"fifo", "chr", "blk"} THEN EncErr("unknown file type")
    ELSE SpecialHeaderWithPath(
             prepare_header_path(set_metadata_in_mode(new_gnu, stat.v, m), path),
             stat.v.kind)

\* lines 808-846
prepare_special_header(f, path, m, fol) ==
    SpecialHeaderWithStat(get_stat(f, path, fol), path, m)

(***************************************************************************)
(* Queue entries                                                           *)
(***************************************************************************)
\* StreamFile_new forgetting the mode and the follow flag it is given.
StreamFile_new_defaults(path, alternative_name, fol, m) ==
    [path |-> path, alternative_name |-> alternative_name, follow |-> TRUE,
     mode |-> "Complete",
     cached_header_bytes |-> None, read_bytes |-> 0, padding_bytes |-> None]

StreamFile_new(path, alternative_name, fol, m) ==
    [path |-> path, alternative_name |-> alternative_name, follow |-> fol, mode |-> m,
     cached_header_bytes |-> None, read_bytes |-> 0, padding_bytes |-> None]

\* A caller-supplied reader (Box<dyn Read>): size bytes in all, at most chunk bytes
\* per call, and an error whenever its cursor stands at err_at (-1: never).
Source(id, size, chunk, err_at) ==
    [id |-> id, size |-> size, pos |-> 0, chunk |-> chunk, err_at |-> err_at]

StreamData_new_with_encoded_header(encoded_header, data) ==
    [encoded_header |-> encoded_header, data |-> data, padding_bytes |-> None,
     read_bytes |-> 0]

StreamData_new(header, data) ==
    StreamData_new_with_encoded_header(as_bytes(header), data)

StreamSpecialFile_new(path, m, fol) ==
    [cached_header_bytes |-> None, path |-> path, mode |-> m, follow |-> fol]

StreamLink_new_with_encoded_header(encoded_header) ==
    [encoded_header |-> encoded_header]

Put(map, k, v) == [i \in DOMAIN map \cup {k} |-> IF i = k THEN v ELSE map[i]]

Bump(calls, k) == Put(calls, k, (IF k \in DOMAIN calls THEN calls[k] ELSE 0) + 1)

(***************************************************************************)
(* The read engine.  st is the producer during one read call; rb and buf   *)
(* are the call's read_bytes and the part of the buffer filled so far; L   *)
(* is buffer.len().  A piece of the loop ends in a Flow: ctl says how      *)
(* control leaves it ("next": on to the code below it, "break": out of     *)
(* 'outer, "continue": 'outer again, "err": the call returns Err(e)).      *)
(***************************************************************************)
Flow(st, rb, buf, ctl, e) == [st |-> st, rb |-> rb, buf |-> buf, ctl |-> ctl, e |-> e]

\* dyn Read::read into a buffer of k bytes
SourceRead(src, k) ==
    IF src.pos = src.err_at THEN [err |-> TRUE, r |-> 0, src |-> src, bytes |-> <<>>]
    ELSE [err |-> FALSE,
          r |-> Min(Min(k, src.size - src.pos), src.chunk),
          src |-> [src EXCEPT !.pos = @ + Min(Min(k, src.size - src.pos), src.chunk)],
          bytes |-> IF Min(Min(k, src.size - src.pos), src.chunk) = 0 THEN <<>>
                    ELSE <<Run("D", [NoDesc EXCEPT !.id = src.id], src.pos,
                               Min(Min(k, src.size - src.pos), src.chunk))>>]

\* The node File::open reaches (it follows a symlink)
Opened(f, path) ==
    IF Lookup(f, path).kind = "symlink" THEN Lookup(f, Lookup(f, path).target)
    ELSE Lookup(f, path)

\* seek(Start(off)) and read into a buffer of k bytes, on the opened node t
ReadAt(t, path, off, k) ==
    IF t.kind # "file" \/ off >= t.size THEN [err |-> FALSE, r |-> 0, bytes |-> <<>>]
    ELSE [err |-> FALSE, r |-> Min(k, t.size - off),
          bytes |-> <<Run("F", [NoDesc EXCEPT !.name = path], off, Min(k, t.size - off))>>]

\* lines 615-617
FileRead(f, path, off, k) ==
    IF Opened(f, path).kind = "none" THEN [err |-> TRUE, r |-> 0, bytes |-> <<>>]
    ELSE ReadAt(Opened(f, path), path, off, k)

\* Drain forgetting the bytes that did not fit.
Drain_forgetful(h, k) ==
    IF BLen(h) > k THEN [take |-> TakeB(h, k), rest |-> <<>>, full |-> TRUE]
    ELSE [take |-> h, rest |-> <<>>, full |-> FALSE]

\* Vec::drain into the k bytes left of the destination: the bytes copied, the
\* bytes that stay, and whether the buffer is thereby full with bytes left over.
Drain(h, k) ==
    IF BLen(h) > k THEN [take |-> TakeB(h, k), rest |-> DropB(h, k), full |-> TRUE]
    ELSE [take |-> h, rest |-> <<>>, full |-> FALSE]

\* Trailer counting the whole buffer, not the part of it that was still free.
Trailer_wholebuf(st, L, rb, buf) ==
    IF st.fbr > 0
    THEN IF L - rb > st.fbr
         THEN Flow([st EXCEPT !.fbr = 0], rb + st.fbr, Cat(buf, Zeros(st.fbr)), "break", "")
         ELSE Flow([st EXCEPT !.fbr = IF @ > L THEN @ - L ELSE 0], L,
                   Cat(buf, Zeros(L - rb)), "break", "")
    ELSE Flow(st, rb, buf, "break", "")

\* Trailer leaving the counter as it is when the trailer fills the buffer.
Trailer_endless(st, L, rb, buf) ==
    IF st.fbr > 0
    THEN IF L - rb > st.fbr
         THEN Flow([st EXCEPT !.fbr = 0], rb + st.fbr, Cat(buf, Zeros(st.fbr)), "break", "")
         ELSE Flow(st, L, Cat(buf, Zeros(L - rb)), "break", "")
    ELSE Flow(st, rb, buf, "break", "")

\* lines 540-558
Trailer(st, L, rb, buf) ==
    IF st.fbr > 0
    THEN IF L - rb > st.fbr
         THEN Flow([st EXCEPT !.fbr = 0], rb + st.fbr, Cat(buf, Zeros(st.fbr)), "break", "")
         ELSE Flow([st EXCEPT !.fbr = @ - (L - rb)], L, Cat(buf, Zeros(L - rb)), "break", "")
    ELSE Flow(st, rb, buf, "break", "")

RECURSIVE FileLoop(_, _, _, _)

\* lines 615-631, with the result rd of the read
FileRead_done(st, L, rb, buf, rd) ==
    IF rd.err THEN Flow(st, rb, buf, "err", "open")
    ELSE IF rd.r = 0
    THEN IF BLOCK - (st.sf[st.ci].read_bytes % BLOCK) < BLOCK
         THEN Flow([st EXCEPT !.sf[st.ci].padding_bytes =
                                 Some(Zeros(BLOCK - (st.sf[st.ci].read_bytes % BLOCK)))],
                   rb, buf, "continue", "")
         ELSE Flow(st, rb, buf, "next", "")
    ELSE FileLoop([st EXCEPT !.sf[st.ci].read_bytes = @ + rd.r], L, rb + rd.r,
                  Cat(buf, rd.bytes))

\* FileStat_done rounding up to the block an entry whose path is no longer a
\* regular file.
FileStat_done_padded(st, L, rb, buf, stat) ==
    IF stat.err THEN Flow(st, rb, buf, "err", stat.e)
    ELSE IF ~is_file(stat.v)
    THEN IF st.sf[st.ci].read_bytes % BLOCK # 0
         THEN Flow([st EXCEPT !.sf[st.ci].padding_bytes =
                                 Some(Zeros(BLOCK - (st.sf[st.ci].read_bytes % BLOCK)))],
                   rb, buf, "continue", "")
         ELSE Flow(st, rb, buf, "next", "")
    ELSE FileRead_done(st, L, rb, buf,
                       FileRead(st.fs, st.sf[st.ci].path, st.sf[st.ci].read_bytes, L - rb))

\* lines 611-617, with the result of get_stat
FileStat_done(st, L, rb, buf, stat) ==
    IF stat.err THEN Flow(st, rb, buf, "err", stat.e)
    ELSE IF ~is_file(stat.v) THEN Flow(st, rb, buf, "next", "")
    ELSE FileRead_done(st, L, rb, buf,
                       FileRead(st.fs, st.sf[st.ci].path, st.sf[st.ci].read_bytes, L - rb))

\* lines 595-609, with the drained padding d
FilePadding(st, L, rb, buf, d) ==
    Flow([st EXCEPT !.sf[st.ci].padding_bytes = Some(d.rest)],
         rb + BLen(d.take), Cat(buf, d.take), IF d.full THEN "break" ELSE "next", "")

\* lines 590-632: the payload and padding loop of a StreamFile
FileLoop(st, L, rb, buf) ==
    IF rb = L THEN Flow(st, rb, buf, "break", "")
    ELSE IF st.sf[st.ci].padding_bytes.some
    THEN FilePadding(st, L, rb, buf, Drain(st.sf[st.ci].padding_bytes.v, L - rb))
    ELSE FileStat_done(st, L, rb, buf,
                       get_stat(st.fs, st.sf[st.ci].path, st.sf[st.ci].follow))

\* lines 573-589, with the drained header d
FileHeader(st, L, rb, buf, d) ==
    IF d.full
    THEN Flow([st EXCEPT !.sf[st.ci].cached_header_bytes = Some(d.rest)],
              rb + BLen(d.take), Cat(buf, d.take), "break", "")
    ELSE FileLoop([st EXCEPT !.sf[st.ci].cached_header_bytes = Some(d.rest)],
                  L, rb + BLen(d.take), Cat(buf, d.take))

\* lines 565-572, with the result enc of prepare_file_header
FileEncoded(st, L, rb, buf, enc) ==
    IF enc.err THEN Flow(st, rb, buf, "err", enc.e)
    ELSE FileHeader([st EXCEPT !.calls = Bump(@, st.ci)], L, rb, buf,
                    Drain(enc.bytes, L - rb))

\* lines 560-633
FileBranch(st, L, rb, buf) ==
    IF ~st.sf[st.ci].cached_header_bytes.some
    THEN FileEncoded(st, L, rb, buf,
                     prepare_file_header(st.fs, st.sf[st.ci].path,
                                         st.sf[st.ci].alternative_name,
                                         st.sf[st.ci].mode, st.sf[st.ci].follow))
    ELSE FileHeader(st, L, rb, buf, Drain(st.sf[st.ci].cached_header_bytes.v, L - rb))

RECURSIVE DataLoop(_, _, _, _)

\* DataRead_done computing the padding from the bytes of this call instead of
\* the bytes of the entry's payload.
DataRead_done_callbytes(st, L, rb, buf, rd) ==
    IF rd.err THEN Flow(st, rb, buf, "err", "data")
    ELSE IF rd.r = 0
    THEN IF BLOCK - (rb % BLOCK) < BLOCK
         THEN Flow([st EXCEPT !.sd[st.ci].padding_bytes = Some(Zeros(BLOCK - (rb % BLOCK)))],
                   rb, buf, "continue", "")
         ELSE Flow(st, rb, buf, "next", "")
    ELSE DataLoop([st EXCEPT !.sd[st.ci].read_bytes = @ + rd.r,
                             !.sd[st.ci].data = rd.src],
                  L, rb + rd.r, Cat(buf, rd.bytes))

\* DataRead_done adding a whole block of padding to a payload that ends on a
\* block.
DataRead_done_fullblock(st, L, rb, buf, rd) ==
    IF rd.err THEN Flow(st, rb, buf, "err", "data")
    ELSE IF rd.r = 0
    THEN IF BLOCK - (st.sd[st.ci].read_bytes % BLOCK) <= BLOCK
         THEN Flow([st EXCEPT !.sd[st.ci].padding_bytes =
                                 Some(Zeros(BLOCK - (st.sd[st.ci].read_bytes % BLOCK)))],
                   rb, buf, "continue", "")
         ELSE Flow(st, rb, buf, "next", "")
    ELSE DataLoop([st EXCEPT !.sd[st.ci].read_bytes = @ + rd.r,
                             !.sd[st.ci].data = rd.src],
                  L, rb + rd.r, Cat(buf, rd.bytes))

\* lines 678-691, with the result rd of the read
DataRead_done(st, L, rb, buf, rd) ==
    IF rd.err THEN Flow(st, rb, buf, "err", "data")
    ELSE IF rd.r = 0
    THEN IF BLOCK - (st.sd[st.ci].read_bytes % BLOCK) < BLOCK
         THEN Flow([st EXCEPT !.sd[st.ci].padding_bytes =
                                 Some(Zeros(BLOCK - (st.sd[st.ci].read_bytes % BLOCK)))],
                   rb, buf, "continue", "")
         ELSE Flow(st, rb, buf, "next", "")
    ELSE DataLoop([st EXCEPT !.sd[st.ci].read_bytes = @ + rd.r,
                             !.sd[st.ci].data = rd.src],
                  L, rb + rd.r, Cat(buf, rd.bytes))

\* DataPadding going on to the next entry with padding bytes left over.
DataPadding_hasty(st, L, rb, buf, d) ==
    Flow([st EXCEPT !.sd[st.ci].padding_bytes = Some(d.rest)],
         rb + BLen(d.take), Cat(buf, d.take), "next", "")

\* lines 662-676, with the drained padding d
DataPadding(st, L, rb, buf, d) ==
    Flow([st EXCEPT !.sd[st.ci].padding_bytes = Some(d.rest)],
         rb + BLen(d.take), Cat(buf, d.take), IF d.full THEN "break" ELSE "next", "")

\* lines 657-693: the payload and padding loop of a StreamData
DataLoop(st, L, rb, buf) ==
    IF rb = L THEN Flow(st, rb, buf, "break", "")
    ELSE IF st.sd[st.ci].padding_bytes.some
    THEN DataPadding(st, L, rb, buf, Drain(st.sd[st.ci].padding_bytes.v, L - rb))
    ELSE DataRead_done(st, L, rb, buf, SourceRead(st.sd[st.ci].data, L - rb))

\* lines 640-656, with the drained header d
DataHeader(st, L, rb, buf, d) ==
    IF d.full
    THEN Flow([st EXCEPT !.sd[st.ci].encoded_header = d.rest],
              rb + BLen(d.take), Cat(buf, d.take), "break", "")
    ELSE DataLoop([st EXCEPT !.sd[st.ci].encoded_header = d.rest],
                  L, rb + BLen(d.take), Cat(buf, d.take))

\* lines 635-694
DataBranch(st, L, rb, buf) ==
    DataHeader(st, L, rb, buf, Drain(st.sd[st.ci].encoded_header, L - rb))

\* lines 708-722, with the drained header d
SpecialHeader(st, L, rb, buf, d) ==
    Flow([st EXCEPT !.ssf[st.ci].cached_header_bytes = Some(d.rest)],
         rb + BLen(d.take), Cat(buf, d.take), IF d.full THEN "break" ELSE "next", "")

\* lines 701-707, with the result enc of prepare_special_header
SpecialEncoded(st, L, rb, buf, enc) ==
    IF enc.err THEN Flow(st, rb, buf, "err", enc.e)
    ELSE SpecialHeader([st EXCEPT !.calls = Bump(@, st.ci)], L, rb, buf,
                       Drain(enc.bytes, L - rb))

\* lines 696-723
SpecialBranch(st, L, rb, buf) ==
    IF ~st.ssf[st.ci].cached_header_bytes.some
    THEN SpecialEncoded(st, L, rb, buf,
                        prepare_special_header(st.fs, st.ssf[st.ci].path,
                                               st.ssf[st.ci].mode, st.ssf[st.ci].follow))
    ELSE SpecialHeader(st, L, rb, buf, Drain(st.ssf[st.ci].cached_header_bytes.v, L - rb))

\* LinkHeader leaving the loop on the entry whose header it has just emptied.
LinkHeader_lingering(st, L, rb, buf, d) ==
    Flow([st EXCEPT !.sl[st.ci].encoded_header = d.rest],
         rb + BLen(d.take), Cat(buf, d.take), "break", "")

\* lines 730-744, with the drained header d
LinkHeader(st, L, rb, buf, d) ==
    Flow([st EXCEPT !.sl[st.ci].encoded_header = d.rest],
         rb + BLen(d.take), Cat(buf, d.take), IF d.full THEN "break" ELSE "next", "")

\* lines 725-745
LinkBranch(st, L, rb, buf) ==
    LinkHeader(st, L, rb, buf, Drain(st.sl[st.ci].encoded_header, L - rb))

\* line 746
Advance(st, rb) ==
    [st EXCEPT !.ci = @ + 1,
               !.marks = Append(@, st.base + rb - (FINISH_BYTES - st.fbr))]

\* The four `if let` blocks of the loop body, in turn: each is entered when
\* control reaches it and its map holds current_index.
FileStep(r, L) ==
    IF r.ctl = "next" /\ r.st.ci \in DOMAIN r.st.sf
    THEN FileBranch(r.st, L, r.rb, r.buf) ELSE r

DataStep(r, L) ==
    IF r.ctl = "next" /\ r.st.ci \in DOMAIN r.st.sd
    THEN DataBranch(r.st, L, r.rb, r.buf) ELSE r

SpecialStep(r, L) ==
    IF r.ctl = "next" /\ r.st.ci \in DOMAIN r.st.ssf
    THEN SpecialBranch(r.st, L, r.rb, r.buf) ELSE r

LinkStep(r, L) ==
    IF r.ctl = "next" /\ r.st.ci \in DOMAIN r.st.sl
    THEN LinkBranch(r.st, L, r.rb, r.buf) ELSE r

\* lines 560-745
Body(st, L, rb, buf) ==
    LinkStep(SpecialStep(DataStep(FileStep(Flow(st, rb, buf, "next", ""), L), L), L), L)

RECURSIVE Outer(_, _, _, _)

\* OuterAfter moving on to the next entry when the body fails.
OuterAfter_skipping(r, L) ==
    IF r.ctl = "next" THEN Outer(Advance(r.st, r.rb), L, r.rb, r.buf)
    ELSE IF r.ctl = "continue" THEN Outer(r.st, L, r.rb, r.buf)
    ELSE IF r.ctl = "err" THEN [r EXCEPT !.st = Advance(r.st, r.rb)]
    ELSE r

\* lines 746-747 and the loop's back edge, after a pass r through the body
OuterAfter(r, L) ==
    IF r.ctl = "next" THEN Outer(Advance(r.st, r.rb), L, r.rb, r.buf)
    ELSE IF r.ctl = "continue" THEN Outer(r.st, L, r.rb, r.buf)
    ELSE r

\* lines 538-747: 'outer
Outer(st, L, rb, buf) ==
    IF st.ci > st.ic THEN Trailer(st, L, rb, buf)
    ELSE OuterAfter(Body(st, L, rb, buf), L)

\* The producer as the record a read call works on.
Producer ==
    [ci |-> current_index, fbr |-> finish_bytes_remaining, ic |-> index_counter,
     sf |-> stream_files, sd |-> stream_data, ssf |-> stream_special_file,
     sl |-> stream_link, fs |-> fs, calls |-> hdr_calls, marks |-> marks,
     base |-> BLen(out)]

\* lines 536-750: read(buffer) with buffer.len() = L
ReadCall(st, L) == Outer(st, L, 0, <<>>)

(***************************************************************************)
(* The builder surface.  b is the producer during one append call.         *)
(***************************************************************************)
Builder ==
    [mode |-> mode, follow |-> follow, ic |-> index_counter, sf |-> stream_files,
     sd |-> stream_data, ssf |-> stream_special_file, sl |-> stream_link, fs |-> fs,
     calls |-> hdr_calls, queued |-> queued, late |-> last.started,
     trailer |-> finish_bytes_remaining < FINISH_BYTES]

\* What an append call queued (observation only): late, after a read was made;
\* trailer, after a trailer byte was returned.  For a link, name is its target.
Queued(kind, hdr, path, name, m, fol, src, b) ==
    [kind |-> kind, hdr |-> hdr, path |-> path, name |-> name, mode |-> m,
     follow |-> fol, src |-> src, late |-> b.late, trailer |-> b.trailer]

NoSource == Source(0, 0, 0, -1)

Done(b) == [b |-> b, err |-> FALSE, e |-> ""]
Failed(b, e) == [b |-> b, err |-> TRUE, e |-> e]

\* append_stream_data leaving a gap of one index behind the entry it inserts.
append_stream_data_skipping(b, stream_data_, path) ==
    [b EXCEPT !.sd = Put(@, b.ic, stream_data_),
              !.ic = @ + 2,
              !.calls = Bump(@, b.ic),
              !.queued = Append(@, Queued("data", stream_data_.encoded_header, path, <<>>,
                                          "", FALSE, stream_data_.data, b))]

\* lines 504-507
append_stream_data(b, stream_data_, path) ==
    [b EXCEPT !.sd = Put(@, b.ic, stream_data_),
              !.ic = @ + 1,
              !.calls = Bump(@, b.ic),
              !.queued = Append(@, Queued("data", stream_data_.encoded_header, path, <<>>,
                                          "", FALSE, stream_data_.data, b))]

\* lines 217-221
append(b, header, data) ==
    Done(append_stream_data(b, StreamData_new(header, data), <<>>))

\* lines 266-273, with the result a of prepare_header_path
DataWithPath(b, a, data, path) ==
    IF a.err THEN Failed(b, a.e)
    ELSE Done(append_stream_data(b,
             StreamData_new_with_encoded_header(Cat(a.ext.v, as_bytes(a.h)), data), path))

\* lines 259-274
append_data(b, header, path, data) ==
    DataWithPath(b, prepare_header_path(header, path), data, path)

\* lines 406-424, with the results of file.metadata() and file.try_clone()
append_file(b, path, meta, cloned) ==
    IF meta.err THEN Failed(b, meta.e)
    ELSE IF prepare_header_path(new_gnu, path).err
    THEN Failed(b, prepare_header_path(new_gnu, path).e)
    ELSE IF cloned.err THEN Failed(b, "try_clone")
    ELSE Done(append_stream_data(b,
             StreamData_new_with_encoded_header(
                 Cat(prepare_header_path(new_gnu, path).ext.v,
                     as_bytes(set_metadata_in_mode(prepare_header_path(new_gnu, path).h,
                                                   meta.v, b.mode))),
                 cloned.v),
             path))

\* lines 326-330
insert_link(b, encoded_header, path, target) ==
    [b EXCEPT !.sl = Put(@, b.ic, StreamLink_new_with_encoded_header(encoded_header)),
              !.ic = @ + 1,
              !.calls = Bump(@, b.ic),
              !.queued = Append(@, Queued("link", encoded_header, path, target, "", FALSE,
                                          NoSource, b))]

\* lines 320-331, with the results a and k of the two preparers
LinkWithLink(b, a, k, path, target) ==
    IF k.err THEN Failed(b, k.e)
    ELSE Done(insert_link(b, Cat(Cat(a.ext.v, k.ext.v), as_bytes(k.h)), path, target))

\* lines 317-322, with the result a of prepare_header_path
LinkWithPath(b, a, path, target) ==
    IF a.err THEN Failed(b, a.e)
    ELSE LinkWithLink(b, a, prepare_header_link(a.h, target), path, target)

\* lines 311-332
append_link(b, header, path, target) ==
    LinkWithPath(b, prepare_header_path(header, path), path, target)

\* lines 511-518, with the result enc of prepare_special_header
SpecialChecked(b, path, enc) ==
    IF enc.err THEN Failed(b, enc.e)
    ELSE Done([b EXCEPT
             !.ssf = Put(@, b.ic, StreamSpecialFile_new(path, b.mode, b.follow)),
             !.ic = @ + 1,
             !.calls = Bump(@, b.ic),
             !.queued = Append(@, Queued("special", <<>>, path, NoName, b.mode, b.follow,
                                         NoSource, b))])

\* lines 510-519
append_special(b, path) ==
    SpecialChecked(b, path, prepare_special_header(b.fs, path, b.mode, b.follow))

\* lines 522-531, with the result enc of prepare_file_header
FileChecked(b, path, name, enc) ==
    IF enc.err THEN Failed(b, enc.e)
    ELSE Done([b EXCEPT
             !.sf = Put(@, b.ic, StreamFile_new(path, name, b.follow, b.mode)),
             !.ic = @ + 1,
             !.calls = Bump(@, b.ic),
             !.queued = Append(@, Queued("file", <<>>, path, name, b.mode, b.follow,
                                         NoSource, b))])

\* lines 521-532
append_stream_file(b, path, name) ==
    FileChecked(b, path, name, prepare_file_header(b.fs, path, name, b.mode, b.follow))

\* lines 352-354
append_path(b, path) == append_stream_file(b, path, NoName)

\* lines 379-385
append_path_with_name(b, path, name) == append_stream_file(b, path, name)

\* lines 444-450
append_dir(b, path, src_path) == append_stream_file(b, src_path, path)

\* fs::read_dir yields the children in an order the filesystem chooses.
FsOrder == <<P_f, P_a, P_ab, P_ac, P_s, P_sq, P_l, P_x, P_t, P_td, P_tl, P_tu, P_tuv>>

Reverse(q) == [i \in 1..Len(q) |-> q[Len(q) + 1 - i]]

InDir(f, p, c) == c \in Children(f, p)

ReadDir(f, p, rev) ==
    LET Below(c) == InDir(f, p, c)
    IN IF rev THEN Reverse(SelectSeq(FsOrder, Below)) ELSE SelectSeq(FsOrder, Below)

\* lines 481-484: one stack element per directory entry
StackItems(f, l) ==
    [i \in 1..Len(l) |-> [src |-> l[i], is_dir |-> Lookup(f, l[i]).kind = "dir",
                          is_symlink |-> Lookup(f, l[i]).kind = "symlink"]]

\* Path::is_dir follows symlinks
path_is_dir(f, p) == Opened(f, p).kind = "dir"

RECURSIVE Walk(_, _, _, _, _)

\* The `?` after an append made by the walk, then the next turn of the loop
WalkAfter(r, stack, path, src_path, rev) ==
    IF r.err THEN r ELSE Walk(r.b, stack, path, src_path, rev)

\* lines 490-498, with the result of fs::metadata
WalkLeaf(b, stat, src, dest, rest, path, src_path, rev) ==
    IF stat.err THEN Failed(b, stat.e)
    ELSE IF ~is_file(stat.v)
    THEN WalkAfter(append_special(b, src), rest, path, src_path, rev)
    ELSE WalkAfter(append_stream_file(b, src, dest), rest, path, src_path, rev)

\* WalkDir leaving out the directory the walk started from, whatever the
\* archive path given for it.
WalkDir_rootless(b, src, dest, rest, path, src_path, rev) ==
    IF ~path_is_dir(b.fs, src) THEN Failed(b, "read_dir")
    ELSE IF src # src_path
    THEN WalkAfter(append_dir(b, dest, src),
                   rest \o StackItems(b.fs, ReadDir(b.fs, src, rev)), path, src_path, rev)
    ELSE Walk(b, rest \o StackItems(b.fs, ReadDir(b.fs, src, rev)), path, src_path, rev)

\* WalkDir putting the children of a directory under the stack, so that they
\* are taken after everything pushed before them.
WalkDir_childrenlast(b, src, dest, rest, path, src_path, rev) ==
    IF ~path_is_dir(b.fs, src) THEN Failed(b, "read_dir")
    ELSE IF dest # EmptyPath
    THEN WalkAfter(append_dir(b, dest, src),
                   StackItems(b.fs, ReadDir(b.fs, src, rev)) \o rest, path, src_path, rev)
    ELSE Walk(b, StackItems(b.fs, ReadDir(b.fs, src, rev)) \o rest, path, src_path, rev)

\* lines 480-488
WalkDir(b, src, dest, rest, path, src_path, rev) ==
    IF ~path_is_dir(b.fs, src) THEN Failed(b, "read_dir")
    ELSE IF dest # EmptyPath
    THEN WalkAfter(append_dir(b, dest, src),
                   rest \o StackItems(b.fs, ReadDir(b.fs, src, rev)), path, src_path, rev)
    ELSE Walk(b, rest \o StackItems(b.fs, ReadDir(b.fs, src, rev)), path, src_path, rev)

\* lines 477-499, with the element top popped from the stack and the rest of it
WalkTop(b, top, rest, path, src_path, rev) ==
    IF top.is_dir \/ (top.is_symlink /\ b.follow /\ path_is_dir(b.fs, top.src))
    THEN WalkDir(b, top.src, Join(path, StripPrefix(top.src, src_path)), rest, path,
                 src_path, rev)
    ELSE WalkLeaf(b, get_stat(b.fs, top.src, TRUE), top.src,
                  Join(path, StripPrefix(top.src, src_path)), rest, path, src_path, rev)

\* lines 477-500: the walk, from the stack it is given
Walk(b, stack, path, src_path, rev) ==
    IF stack = <<>> THEN Done(b)
    ELSE WalkTop(b, stack[Len(stack)], SubSeq(stack, 1, Len(stack) - 1), path, src_path,
                 rev)

\* lines 471-502
append_dir_all(b, path, src_path, rev) ==
    Walk(b, <<[src |-> src_path, is_dir |-> TRUE, is_symlink |-> FALSE]>>, path, src_path,
         rev)

(***************************************************************************)
(* State machine                                                           *)
(***************************************************************************)
Last(op, res, e, path) ==
    [op |-> op, res |-> res, e |-> e, path |-> path,
     started |-> last.started \/ op = "read",
     failed |-> last.failed \/ (op = "read" /\ res = "err"),
     failure |-> IF op = "fs" THEN ""
                 ELSE IF op = "read" /\ res = "err" THEN e
                 ELSE last.failure]

Init ==
    /\ mode = "Complete"
    /\ follow = TRUE
    /\ index_counter = 0
    /\ stream_files = <<>>
    /\ stream_data = <<>>
    /\ stream_special_file = <<>>
    /\ stream_link = <<>>
    /\ current_index = 0
    /\ finish_bytes_remaining = FINISH_BYTES
    /\ read_bytes = 0
    /\ fs = InitFs
    /\ out = <<>>
    /\ last = [op |-> "new", res |-> "ok", e |-> "", path |-> <<>>,
               started |-> FALSE, failed |-> FALSE, failure |-> ""]
    /\ queued = <<>>
    /\ hdr_calls = <<>>
    /\ marks = <<>>
    /\ fs_changes = 0

\* The effect of an append call with result r on the producer.
Appended(op, r, path) ==
    /\ index_counter' = r.b.ic
    /\ stream_files' = r.b.sf
    /\ stream_data' = r.b.sd
    /\ stream_special_file' = r.b.ssf
    /\ stream_link' = r.b.sl
    /\ hdr_calls' = r.b.calls
    /\ queued' = r.b.queued
    /\ last' = Last(op, IF r.err THEN "err" ELSE "ok", r.e, path)
    /\ UNCHANGED <<mode, follow, current_index, finish_bytes_remaining, read_bytes, fs, out,
                   marks, fs_changes>>

AppendHeader(id, size, chunk, err_at) ==
    /\ index_counter < MaxEntries
    /\ Appended("append",
                append(Builder, UserHeader(id), Source(index_counter + 1, size, chunk, err_at)),
                <<>>)

AppendData(id, path, size) ==
    /\ index_counter < MaxEntries
    /\ Appended("append_data",
                append_data(Builder, UserHeader(id), path,
                            Source(index_counter + 1, size, BigBuf, -1)),
                path)

AppendLink(id, path, target) ==
    /\ index_counter < MaxEntries
    /\ Appended("append_link", append_link(Builder, UserHeader(id), path, target), path)

\* append_file with a handle opened on the SmallFileSize bytes of P_ab, which
\* try_clone duplicates or not.
AppendFile(path, ok) ==
    /\ index_counter < MaxEntries
    /\ Appended("append_file",
                append_file(Builder, path, Ok(InitFs[P_ab]),
                            [err |-> ~ok,
                             v |-> Source(index_counter + 1, SmallFileSize, BigBuf, -1)]),
                path)

AppendPath(path) ==
    /\ index_counter < MaxEntries
    /\ Appended("append_path", append_path(Builder, path), path)

AppendPathWithName(path, name) ==
    /\ index_counter < MaxEntries
    /\ Appended("append_path_with_name", append_path_with_name(Builder, path, name), path)

AppendDir(path, src_path) ==
    /\ index_counter < MaxEntries
    /\ Appended("append_dir", append_dir(Builder, path, src_path), src_path)

AppendDirAll(path, src_path, rev) ==
    /\ index_counter < MaxEntries
    /\ Appended("append_dir_all", append_dir_all(Builder, path, src_path, rev), src_path)

\* lines 180-182
Mode(m) ==
    /\ mode' = m
    /\ last' = Last("mode", "ok", "", <<>>)
    /\ UNCHANGED <<follow, index_counter, stream_files, stream_data, stream_special_file,
                   stream_link, current_index, finish_bytes_remaining, read_bytes, fs, out,
                   queued, hdr_calls, marks, fs_changes>>

\* lines 186-188
FollowSymlinks(b) ==
    /\ follow' = b
    /\ last' = Last("follow_symlinks", "ok", "", <<>>)
    /\ UNCHANGED <<mode, index_counter, stream_files, stream_data, stream_special_file,
                   stream_link, current_index, finish_bytes_remaining, read_bytes, fs, out,
                   queued, hdr_calls, marks, fs_changes>>

\* The effect of a read call with result r on the producer (lines 748-749).
Returned(r) ==
    /\ current_index' = r.st.ci
    /\ finish_bytes_remaining' = r.st.fbr
    /\ stream_files' = r.st.sf
    /\ stream_data' = r.st.sd
    /\ stream_special_file' = r.st.ssf
    /\ stream_link' = r.st.sl
    /\ hdr_calls' = r.st.calls
    /\ marks' = r.st.marks
    /\ read_bytes' = IF r.ctl = "err" THEN read_bytes ELSE read_bytes + r.rb
    /\ out' = IF r.ctl = "err" THEN out ELSE Cat(out, r.buf)
    /\ last' = Last("read",
                    IF r.ctl = "err" THEN "err" ELSE IF r.rb = 0 THEN "eof" ELSE "ok",
                    r.e, <<>>)
    /\ UNCHANGED <<mode, follow, index_counter, fs, queued, fs_changes>>

Read(L) == Returned(ReadCall(Producer, L))

\* The environment replaces or removes a path.
FsChange(path, node) ==
    /\ fs_changes < MaxFsChanges
    /\ fs[path] # node
    /\ fs' = [fs EXCEPT ![path] = node]
    /\ fs_changes' = fs_changes + 1
    /\ last' = Last("fs", "ok", "", path)
    /\ UNCHANGED <<mode, follow, index_counter, stream_files, stream_data,
                   stream_special_file, stream_link, current_index,
                   finish_bytes_remaining, read_bytes, out, queued, hdr_calls, marks>>

(***************************************************************************)
(* Inputs                                                                  *)
(***************************************************************************)
P_foo == <<Comp("foo", 3)>>
P_long == <<Comp("long", LongLen)>>
P_r == <<Comp("r", 1)>>
\* A short path set_path refuses.
P_bad == <<Comp(BadComp, 4)>>

BufSizes == {BLOCK \div 2, BLOCK, BigBuf}
ByteBufSizes == {1, SmallBuf, BigBuf}

\* The append calls whose payload source, if any, reads to its end.
Appends ==
    \/ \E size \in {SmallFileSize, BLOCK} : AppendHeader(1, size, BigBuf, -1)
    \/ AppendHeader(1, FileSize, SmallBuf, -1)
    \/ AppendData(1, P_long, 0)
    \/ AppendLink(1, P_foo, P_foo)
    \/ \E path \in {P_f, P_x} : AppendPath(path)
    \/ AppendPathWithName(P_ab, P_foo)
    \/ AppendDir(P_r, P_a)
    \/ AppendDirAll(P_r, P_s, FALSE)

\* A payload source that fails after its first two bytes.
AppendFailing == AppendHeader(1, SmallFileSize, 2, 2)

Next ==
    \/ Appends
    \/ AppendFailing
    \/ \E path \in {P_foo, P_bad}, ok \in BOOLEAN : AppendFile(path, ok)
    \/ \E L \in BufSizes : Read(L)
    \/ \E node \in {Missing, Node("dir", 0, <<>>)} : FsChange(P_f, node)

Spec == Init /\ [][Next]_vars

\* One append call of each kind of entry.
BatchAppends ==
    \/ AppendHeader(1, SmallFileSize, BigBuf, -1)
    \/ AppendHeader(1, FileSize, SmallBuf, -1)
    \/ AppendData(1, P_long, 0)
    \/ AppendLink(1, P_foo, P_foo)
    \/ AppendPath(P_f)
    \/ AppendDirAll(P_r, P_s, FALSE)

\* All entries are enqueued before the first read, no payload source fails and
\* the filesystem does not change.
NextBatch ==
    \/ ~last.started /\ BatchAppends
    \/ \E L \in ByteBufSizes : Read(L)

SpecBatch == Init /\ [][NextBatch]_vars

\* A read has returned 0: the consumer's copy loop stops.
AtEOF == last.op = "read" /\ last.res = "eof"

\* The consumer's copy loop on a queue filled beforehand.
NextCopy ==
    \/ ~last.started /\ BatchAppends
    \/ \E L \in BufSizes : Read(L)

\* The loop calls read, with a buffer of any of the sizes, until a read returns
\* 0.  This is weak fairness of the read step, WF_vars(\E L \in BufSizes :
\* Read(L)), with the states in which no read changes anything written as
\* AtEOF: a read made in any other state changes at least last.
SpecCopy ==
    /\ Init /\ [][NextCopy]_vars
    /\ []<>AtEOF \/ []<><<\E L \in BufSizes : Read(L)>>_vars

\* All entries are enqueued before the first read and no payload source fails,
\* while the filesystem may change between calls.
NextLive ==
    \/ ~last.started /\ Appends
    \/ \E L \in BufSizes : Read(L)
    \/ \E node \in {Missing, Node("dir", 0, <<>>)} : FsChange(P_f, node)

SpecLive == Init /\ [][NextLive]_vars

\* Archive paths around the capacity of the header's name field: shorter by one,
\* exactly fitting in one and in two components, longer by one, much longer,
\* and short but not encodable.
P_under == <<Comp("u", NameCap - 1)>>
P_exact == <<Comp("e", NameCap)>>
P_exact2 == <<Comp("d", NameCap - 2), Comp("e", 1)>>
P_over == <<Comp("o", NameCap + 1)>>
\* Paths whose bytes and terminating NUL end exactly on a block, and go one
\* byte beyond it.
P_block == <<Comp("b", BLOCK - 1)>>
P_wide == <<Comp("w", BLOCK)>>
\* Paths set_path refuses for another reason than their length, although they
\* are long: the refused component beyond the first NameCap bytes, within
\* them, and filling the field exactly.
P_badtail == <<Comp("long", LongLen), Comp(BadComp, 4)>>
P_badhead == <<Comp(BadComp, 4), Comp("long", LongLen)>>
P_badexact == <<Comp(BadComp, NameCap)>>
HdrPaths == {P_foo, P_under, P_exact, P_exact2, P_over, P_long, P_bad,
             P_block, P_wide, P_badtail, P_badhead, P_badexact}
LinkPaths == {P_foo, P_over, P_badtail}
LinkTargets == {P_foo, P_exact, P_over, P_bad, P_badexact}

\* Caller-built headers given archive paths of every length.
NextHdr ==
    \/ \E path \in HdrPaths : AppendData(1, path, SmallFileSize)
    \/ \E path \in LinkPaths, target \in LinkTargets : AppendLink(1, path, target)
    \/ Read(BigBuf)

SpecHdr == Init /\ [][NextHdr]_vars

\* Walks of three trees: a directory with a file and an empty directory, one
\* with a fifo, and one with a symlink to a directory, a symlink to a file and
\* a directory that holds a file;
\* under an archive root or under none, symlinks followed or not, in either
\* header mode.
WalkRoots == {P_r, EmptyPath}
WalkSrcs == {P_a, P_s, P_t}

NextWalk ==
    \/ \E m \in {"Complete", "Deterministic"} : Mode(m)
    \/ \E b \in BOOLEAN : FollowSymlinks(b)
    \/ \E root \in WalkRoots, src \in WalkSrcs, rev \in BOOLEAN :
          AppendDirAll(root, src, rev)
    \/ Read(BigBuf)

SpecWalk == Init /\ [][NextWalk]_vars

(***************************************************************************)
(* The archive a queue stands for                                          *)
(***************************************************************************)
\* Zero bytes up to the next multiple of BLOCK after n bytes.
Pad(n) == Zeros((BLOCK - (n % BLOCK)) % BLOCK)

\* Header, payload and padding of the entry an append call queued, on the
\* filesystem f.
ExpectedEntry(q, f) ==
    CASE q.kind = "data" ->
            Cat(Cat(q.hdr, Bytes("D", [NoDesc EXCEPT !.id = q.src.id], q.src.size)),
                Pad(q.src.size))
      [] q.kind = "link" -> q.hdr
      [] q.kind = "special" -> prepare_special_header(f, q.path, q.mode, q.follow).bytes
      [] q.kind = "file" ->
            IF is_file(get_stat(f, q.path, q.follow).v)
            THEN Cat(Cat(prepare_file_header(f, q.path, q.name, q.mode, q.follow).bytes,
                         Bytes("F", [NoDesc EXCEPT !.name = q.path], Opened(f, q.path).size)),
                     Pad(Opened(f, q.path).size))
            ELSE prepare_file_header(f, q.path, q.name, q.mode, q.follow).bytes

RECURSIVE ExpectedEntries(_, _)
ExpectedEntries(qs, f) ==
    IF qs = <<>> THEN <<>>
    ELSE Cat(ExpectedEntry(Head(qs), f), ExpectedEntries(Tail(qs), f))

ExpectedArchive == Cat(ExpectedEntries(queued, fs), Zeros(FINISH_BYTES))

(***************************************************************************)
(* Claims                                                                  *)
(***************************************************************************)
\* C1: when every entry is enqueued before the first read and reads are made
\* until one returns 0, none failing, the bytes returned are, in enqueue
\* order, each entry's header, payload and padding, followed by the trailer
\* of FINISH_BYTES zero bytes.
C1_BatchOutput ==
    (last.op = "read" /\ last.res = "eof" /\ ~last.failed) => out = ExpectedArchive

\* A drained archive of a path-backed file followed by a stream with payload.
C1_Witness ==
    /\ last.op = "read" /\ last.res = "eof"
    /\ Len(queued) >= 2
    /\ queued[1].kind = "file"
    /\ queued[2].kind = "data" /\ queued[2].src.size > 0
    /\ out = ExpectedArchive

\* C2: whatever buffer sizes the reads are made with, the bytes returned so
\* far are the first bytes of one and the same archive, which the queue alone
\* determines, and at EOF they are all of it.
C2_BufferSizesAgree ==
    /\ out = TakeB(ExpectedArchive, BLen(out))
    /\ (last.op = "read" /\ last.res = "eof") => BLen(out) = BLen(ExpectedArchive)

\* Reads of different sizes met inside the second entry's header: this offset
\* is not a sum of SmallBuf-sized reads, so 1-byte reads were among them.
C2_Witness ==
    /\ Len(queued) >= 2
    /\ queued[1].kind = "data" /\ queued[1].src.size = FileSize
    /\ BLen(out) = BLen(ExpectedEntry(queued[1], fs)) + SmallBuf + 1
    /\ last.op = "read" /\ last.res = "ok"

\* C5: when no entry is appended after the first read, the entries are followed
\* by exactly FINISH_BYTES zero bytes, after which every read returns 0 and
\* changes nothing; an empty producer yields the FINISH_BYTES zero bytes alone.
C5_AfterEntries(L) ==
    /\ ReadCall(Producer, L).ctl = "break"
    /\ ReadCall(Producer, L).rb = 0
    /\ ReadCall(Producer, L).st = Producer

C5_Trailer ==
    /\ BLen(out) <= BLen(ExpectedEntries(queued, fs)) + FINISH_BYTES
    /\ BLen(out) > BLen(ExpectedEntries(queued, fs))
          => out = Cat(ExpectedEntries(queued, fs),
                       Zeros(BLen(out) - BLen(ExpectedEntries(queued, fs))))
    /\ (last.op = "read" /\ last.res = "eof")
          => /\ BLen(out) = BLen(ExpectedEntries(queued, fs)) + FINISH_BYTES
             /\ finish_bytes_remaining = 0
             /\ \A L \in ByteBufSizes : C5_AfterEntries(L)
    /\ (last.op = "read" /\ last.res = "eof" /\ queued = <<>>) => out = Zeros(FINISH_BYTES)

\* An empty producer read to EOF.
C5_Witness ==
    /\ last.op = "read" /\ last.res = "eof"
    /\ queued = <<>>
    /\ out = Zeros(FINISH_BYTES)

\* C3: every entry's footprint, from the first byte of its header to the first
\* byte of the next entry's header or of the trailer, is a multiple of BLOCK
\* bytes, for any payload length and any sequence of buffer sizes.
C3_EntryFootprint ==
    ~last.failed =>
        \A i \in 1..Len(marks) :
            i <= index_counter =>
                (marks[i] - (IF i = 1 THEN 0 ELSE marks[i - 1])) % BLOCK = 0

\* C4: when reads reach EOF, the number of bytes returned is a multiple of
\* BLOCK and the last FINISH_BYTES of them are zero.
C4_TotalLength ==
    (last.op = "read" /\ last.res = "eof") =>
        /\ BLen(out) % BLOCK = 0
        /\ BLen(out) >= FINISH_BYTES
        /\ DropB(out, BLen(out) - FINISH_BYTES) = Zeros(FINISH_BYTES)

\* Whether the padding of an entry with payload is still to be returned.
PaddingOwed(e) ==
    IF e.padding_bytes.some THEN e.padding_bytes.v # <<>> ELSE e.read_bytes % BLOCK # 0

\* Whether a header, payload or padding byte of the entry at index i is still
\* to be returned.
Owed(i) ==
    CASE i \in DOMAIN stream_data ->
            \/ stream_data[i].encoded_header # <<>>
            \/ stream_data[i].data.pos < stream_data[i].data.size
            \/ PaddingOwed(stream_data[i])
      [] i \in DOMAIN stream_link -> stream_link[i].encoded_header # <<>>
      [] i \in DOMAIN stream_special_file ->
            \/ ~stream_special_file[i].cached_header_bytes.some
            \/ stream_special_file[i].cached_header_bytes.v # <<>>
      [] i \in DOMAIN stream_files ->
            \/ ~stream_files[i].cached_header_bytes.some
            \/ stream_files[i].cached_header_bytes.v # <<>>
            \/ /\ is_file(get_stat(fs, stream_files[i].path, stream_files[i].follow).v)
               /\ \/ stream_files[i].read_bytes < Opened(fs, stream_files[i].path).size
                  \/ PaddingOwed(stream_files[i])
      [] OTHER -> FALSE

\* Nothing is left to return.  An entry queued after a trailer byte was returned
\* is not counted: the archive was already being closed.
AllReturned ==
    /\ finish_bytes_remaining = 0
    /\ \A i \in 0..(index_counter - 1) : queued[i + 1].trailer \/ ~Owed(i)

\* A read call with result r into a buffer of L bytes returns from 1 to L
\* bytes, or 0 when nothing is owed.
C6_Count(r, L) ==
    r.ctl # "err" => /\ r.rb <= L
                     /\ r.rb = 0 => AllReturned

\* C6: every successful read into a buffer of L >= 1 bytes returns n with
\* 1 <= n <= L, unless every queued entry and the whole trailer have been
\* returned, when it returns 0; it never returns 0 while a byte is owed.
C6_ReadCount == \A L \in BufSizes : C6_Count(ReadCall(Producer, L), L)

\* C7: append_path and append_path_with_name do not touch the filesystem: they
\* succeed whatever the path, and a path that does not exist is reported by
\* the read that reaches the entry.
C7_EnqueueWithoutStat ==
    last.op \in {"append_path", "append_path_with_name"} => last.res = "ok"

\* C8: the header of every entry is encoded at most once, whatever reads follow.
C8_EncodedOnce == \A i \in DOMAIN hdr_calls : hdr_calls[i] <= 1

\* A retry with result r fails as the last read did and stays on the entry.
C9_Retry(r) ==
    /\ r.ctl = "err"
    /\ r.e = last.failure
    /\ r.st.ci = current_index

\* C9: after a read has failed, and while the filesystem stays as it was, every
\* further read fails with the same error: current_index stays on the failing
\* entry, which is a queued one, and no read returns bytes of a later entry or
\* of the trailer.
C9_ErrorRecurs ==
    last.failure # "" =>
        /\ current_index < index_counter
        /\ \A L \in BufSizes : C9_Retry(ReadCall(Producer, L))

\* A read has failed on the second entry, after the first was returned in full.
C9_Witness ==
    /\ last.op = "read" /\ last.res = "err"
    /\ current_index = 1
    /\ BLen(out) > 0

\* Whether a path fits the name field of the header.
FitsName(p) ==
    \/ path2bytes_len(p) <= NameCap - 1
    \/ path2bytes_len(p) = NameCap /\ set_path_ok(p)

\* C10: for an archive path of at most NameCap - 1 bytes, and for one of
\* exactly NameCap bytes that set_path accepts, prepare_header_path adds no
\* extension: the entry's header bytes are the main header of BLOCK bytes
\* alone, carrying the path whole.
C10_DirectPath ==
    \A i \in 1..Len(queued) :
        (queued[i].kind = "data" /\ FitsName(queued[i].path)) =>
            queued[i].hdr = as_bytes([UserHeader(1) EXCEPT !.name = queued[i].path])

\* An entry queued under a path that fills the name field exactly.
C10_Witness ==
    \E i \in 1..Len(queued) :
        /\ queued[i].kind = "data"
        /\ path2bytes_len(queued[i].path) = NameCap
        /\ BLen(queued[i].hdr) = BLOCK

\* Blocks needed to hold n bytes.
CeilBlocks(n) == (n + BLOCK - 1) \div BLOCK

\* Whether b is one whole serialized header of origin t.
IsHeaderBlock(b, t) == Len(b) = 1 /\ b[1].t = t /\ b[1].o = 0 /\ b[1].n = BLOCK

\* Whether hdr starts with one extension record of origin t for the path p: an
\* extension header, the bytes of p, one NUL and zeros up to the next block.
StartsWithExtension(hdr, t, p) ==
    /\ BLen(hdr) >= BLOCK + BLOCK * CeilBlocks(path2bytes_len(p) + 1)
    /\ IsHeaderBlock(TakeB(hdr, BLOCK), t)
    /\ TakeB(DropB(hdr, BLOCK), path2bytes_len(p))
          = Bytes("N", [NoDesc EXCEPT !.name = p], path2bytes_len(p))
    /\ TakeB(DropB(hdr, BLOCK + path2bytes_len(p)),
             BLOCK * CeilBlocks(path2bytes_len(p) + 1) - path2bytes_len(p))
          = Zeros(BLOCK * CeilBlocks(path2bytes_len(p) + 1) - path2bytes_len(p))

\* The length of an extension record for p.
ExtensionLen(p) == BLOCK + BLOCK * CeilBlocks(path2bytes_len(p) + 1)

\* C11: for every archive path longer than NameCap bytes, the header bytes of
\* the entry are one 'L' extension record followed by the main header of BLOCK
\* bytes; the record is an extension header of BLOCK bytes, the bytes of the
\* path, one NUL and zeros up to the next multiple of BLOCK (none when the
\* path and its NUL end on a block), so that the prefix measures
\* BLOCK + BLOCK * ceil((len + 1) / BLOCK) bytes.
C11_LongName ==
    \A i \in 1..Len(queued) :
        (queued[i].kind = "data" /\ path2bytes_len(queued[i].path) > NameCap) =>
            /\ StartsWithExtension(queued[i].hdr, "L", queued[i].path)
            /\ BLen(queued[i].hdr) = ExtensionLen(queued[i].path) + BLOCK
            /\ IsHeaderBlock(DropB(queued[i].hdr, ExtensionLen(queued[i].path)), "H")

\* An entry whose path and NUL fill one block exactly: extension header, one
\* data block and main header.
C11_Witness ==
    \E i \in 1..Len(queued) :
        /\ queued[i].kind = "data"
        /\ path2bytes_len(queued[i].path) = BLOCK - 1
        /\ BLen(queued[i].hdr) = 3 * BLOCK

\* C12: whenever set_path or set_link_name fails for another reason than the
\* length of the name, the preparer returns that error, adds no extension
\* record and the enqueue fails, whatever the length of the name: no entry is
\* queued under a path or a link target the header refuses to encode.
C12_EncodingErrorPropagates ==
    \A i \in 1..Len(queued) :
        queued[i].kind \in {"data", "link"} =>
            /\ EncodingOk(queued[i].path)
            /\ queued[i].kind = "link" => EncodingOk(queued[i].name)

\* The length of the extension record a name of at most cap bytes does without.
ExtensionFor(p, cap) == IF path2bytes_len(p) > cap THEN ExtensionLen(p) ELSE 0

\* C13: the header bytes of an entry queued by append_link are, in this order,
\* an 'L' extension record if the path is too long, a 'K' extension record if
\* the link target is too long, and the main header of BLOCK bytes; each
\* record is there if and only if its own name is longer than its field.
C13_LinkOrder ==
    \A i \in 1..Len(queued) :
        queued[i].kind = "link" =>
            /\ BLen(queued[i].hdr) = ExtensionFor(queued[i].path, NameCap)
                                       + ExtensionFor(queued[i].name, LinkCap) + BLOCK
            /\ path2bytes_len(queued[i].path) > NameCap
                  => StartsWithExtension(queued[i].hdr, "L", queued[i].path)
            /\ path2bytes_len(queued[i].name) > LinkCap
                  => StartsWithExtension(
                         DropB(queued[i].hdr, ExtensionFor(queued[i].path, NameCap)),
                         "K", queued[i].name)
            /\ IsHeaderBlock(DropB(queued[i].hdr,
                                   ExtensionFor(queued[i].path, NameCap)
                                       + ExtensionFor(queued[i].name, LinkCap)), "H")

\* The header bytes the SpecialFile or Link entry at index i has still to give,
\* in the maps sl and ssf and on the filesystem f.
HeaderLeft(sl, ssf, f, i) ==
    IF i \in DOMAIN sl THEN sl[i].encoded_header
    ELSE IF ssf[i].cached_header_bytes.some THEN ssf[i].cached_header_bytes.v
    ELSE prepare_special_header(f, ssf[i].path, ssf[i].mode, ssf[i].follow).bytes

\* A successful read that starts on a SpecialFile or Link entry with the
\* header bytes h left, and returns the bytes new: k of them from h.
C14_Read(h, new, k) ==
    /\ TakeB(new, k) = TakeB(h, k)
    /\ HeaderLeft(stream_link', stream_special_file', fs', current_index) = DropB(h, k)
    /\ current_index' > current_index <=> k = BLen(h)
    /\ k < BLen(h) => BLen(new) = k
    /\ BLen(new) > k =>
          \/ DropB(new, k)[1].t \in {"H", "L", "K"} /\ DropB(new, k)[1].o = 0
          \/ /\ DropB(new, k)[1].t = "Z"
             /\ current_index' > index_counter
             /\ finish_bytes_remaining' < finish_bytes_remaining

C14_Step ==
    (/\ last'.op = "read" /\ last'.res # "err"
     /\ current_index \in DOMAIN stream_link \cup DOMAIN stream_special_file)
        => C14_Read(HeaderLeft(stream_link, stream_special_file, fs, current_index),
                    DropB(out', BLen(out)),
                    Min(BLen(HeaderLeft(stream_link, stream_special_file, fs,
                                        current_index)),
                        BLen(out') - BLen(out)))

\* C14: for a SpecialFile or Link entry, read returns the entry's encoded
\* header bytes and nothing else of it, no payload and no padding: what
\* follows the header in the output starts the next entry or is the trailer,
\* and current_index moves past the entry in the call that returns the last
\* header byte, not before.
C14_HeaderOnly == [][C14_Step]_vars

\* A link's header returned whole, the index past it, and nothing after it yet.
C14_Witness ==
    /\ 0 \in DOMAIN stream_link
    /\ stream_link[0].encoded_header = <<>>
    /\ current_index > 0
    /\ out = queued[1].hdr
    /\ last.op = "read" /\ last.res = "ok"

\* The name in the main header of the entry an append call queued.
RecordedName(q, f) == ExpectedEntry(q, f)[1].d.name

\* Every entry a walk with result r has added to the queue is named by the
\* archive root joined with its path below the source root.
C15_Names(r, root, src) ==
    \A i \in (Len(queued) + 1)..Len(r.b.queued) :
        RecordedName(r.b.queued[i], fs) = Join(root, StripPrefix(r.b.queued[i].path, src))

\* C15: every entry append_dir_all queues, of whatever kind, SpecialFile
\* included, is recorded in the archive under archive_root joined with the
\* node's path relative to src_root, never under its source path.
C15_ArchiveNames ==
    \A root \in WalkRoots, src \in WalkSrcs, rev \in BOOLEAN :
        C15_Names(append_dir_all(Builder, root, src, rev), root, src)

\* What the walk does with the node at path p, which it does not descend into
\* (it is a regular file or a symlink): it goes through without failing, and
\* its entry for p is a RegularFromPath one.
C16_Leaf(r, p) ==
    /\ ~r.err
    /\ \A i \in (Len(queued) + 1)..Len(r.b.queued) :
          r.b.queued[i].path = p => r.b.queued[i].kind = "file"
    /\ \E i \in (Len(queued) + 1)..Len(r.b.queued) : r.b.queued[i].path = p

\* Whether the walk descends into the node at p.
Descended(p) ==
    \/ Lookup(fs, p).kind = "dir"
    \/ Lookup(fs, p).kind = "symlink" /\ follow /\ path_is_dir(fs, p)

\* C16: in append_dir_all a node that is not descended into is queued as a
\* SpecialFile only when it is neither a regular file nor a symlink; every
\* regular file and every symlink, also one to a directory or to a special
\* file when symlinks are not followed, is queued as RegularFromPath, and the
\* call does not fail because of it.
C16_SymlinksAreFiles ==
    \A root \in WalkRoots, src \in WalkSrcs, rev \in BOOLEAN :
        \A p \in Children(fs, src) :
            (Lookup(fs, p).kind \in {"file", "symlink"} /\ ~Descended(p))
                => C16_Leaf(append_dir_all(Builder, root, src, rev), p)

\* The nodes of the filesystem below p, and whether a symlink is among them.
Below(p) == {c \in DOMAIN fs : Len(c) > Len(p) /\ HasPrefix(c, p) /\ fs[c].kind # "none"}
HasSymlinks(p) == \E c \in Below(p) : fs[c].kind = "symlink"

\* The entries a walk with result r has added to the queue: one for each node
\* below src and, under a non-empty archive root, one for src itself.
C17_Walk(r, root, src) ==
    /\ {r.b.queued[i].path : i \in (Len(queued) + 1)..Len(r.b.queued)}
          = Below(src) \cup (IF root # EmptyPath THEN {src} ELSE {})
    /\ Len(r.b.queued) - Len(queued)
          = Cardinality(Below(src)) + (IF root # EmptyPath THEN 1 ELSE 0)
    /\ root # EmptyPath =>
          \E i \in (Len(queued) + 1)..Len(r.b.queued) :
              /\ r.b.queued[i].path = src
              /\ Lookup(fs, src).kind = "dir"
              /\ r.b.queued[i].kind = "file"

\* The walk, checked when it succeeds on a tree without symlinks.
C17_Checked(r, root, src) == (~r.err /\ ~HasSymlinks(src)) => C17_Walk(r, root, src)

\* C17: a successful append_dir_all on a finite tree without symlinks queues
\* exactly one entry for each node below src_root, and one directory entry for
\* src_root itself exactly when archive_root is not empty: the root is left
\* out only for the empty archive root.
C17_OneEntryPerNode ==
    \A root \in WalkRoots, src \in WalkSrcs, rev \in BOOLEAN :
        C17_Checked(append_dir_all(Builder, root, src, rev), root, src)

\* A walk of the directory a under the empty archive root has queued a/b.txt
\* and a/c, and nothing for a itself.
C17_Witness ==
    /\ last.op = "append_dir_all" /\ last.res = "ok" /\ last.path = P_a
    /\ Len(queued) = 2
    /\ {queued[i].path : i \in 1..2} = {P_ab, P_ac}

\* The number of padding bytes after p payload bytes.
PadLen(p) == (BLOCK - (p % BLOCK)) % BLOCK

\* The bytes returned for the entry at index i, once current_index is past it.
Footprint(i) == marks[i + 1] - (IF i = 0 THEN 0 ELSE marks[i])

\* An entry with payload whose source has reported EOF: its padding buffer, if
\* it was made, holds what is left of PadLen(read_bytes) >= 1 bytes.
C18_Buffer(e) ==
    e.padding_bytes.some =>
        /\ PadLen(e.read_bytes) \in 1..(BLOCK - 1)
        /\ BLen(e.padding_bytes.v) <= PadLen(e.read_bytes)
        /\ e.padding_bytes.v = Zeros(BLen(e.padding_bytes.v))

\* C18: when the payload source of a RegularFromPath or RegularFromStream
\* entry first reports EOF after p payload bytes, the padding returned for the
\* entry is exactly (BLOCK - p mod BLOCK) mod BLOCK zero bytes: none when p is
\* 0 or a multiple of BLOCK, from 1 to BLOCK - 1 otherwise.
C18_PaddingLength ==
    /\ \A i \in DOMAIN stream_data : C18_Buffer(stream_data[i])
    /\ \A i \in DOMAIN stream_files : C18_Buffer(stream_files[i])
    /\ ~last.failed =>
          \A i \in 0..(Len(marks) - 1) :
              /\ (i \in DOMAIN stream_data /\ stream_data[i].encoded_header = <<>>) =>
                    Footprint(i) = BLen(queued[i + 1].hdr) + stream_data[i].read_bytes
                                     + PadLen(stream_data[i].read_bytes)
              /\ (/\ i \in DOMAIN stream_files
                  /\ stream_files[i].cached_header_bytes = Some(<<>>)
                  /\ is_file(get_stat(fs, stream_files[i].path, stream_files[i].follow).v)) =>
                    Footprint(i) = BLen(prepare_file_header(fs, stream_files[i].path,
                                                            stream_files[i].alternative_name,
                                                            stream_files[i].mode,
                                                            stream_files[i].follow).bytes)
                                     + stream_files[i].read_bytes
                                     + PadLen(stream_files[i].read_bytes)

\* A stream of SmallFileSize bytes returned with its padding up to the block,
\* after one whose payload of BLOCK bytes got none.
C18_Witness ==
    /\ Len(marks) >= 2
    /\ 0 \in DOMAIN stream_data /\ stream_data[0].read_bytes = BLOCK
    /\ Footprint(0) = 2 * BLOCK
    /\ 1 \in DOMAIN stream_data /\ stream_data[1].read_bytes = SmallFileSize
    /\ Footprint(1) = 2 * BLOCK
    /\ ~last.failed

\* The indexes that hold an entry.
Entries ==
    DOMAIN stream_files \cup DOMAIN stream_data \cup DOMAIN stream_special_file
        \cup DOMAIN stream_link

\* A step never moves current_index back, and moves it past an entry only
\* when, after the step, nothing of the entry is owed: its header buffer is
\* empty, its payload source is at EOF or it has no payload (no payload source,
\* or a path that is not a regular file), and its padding is returned.
C19_Step ==
    /\ current_index' >= current_index
    /\ \A i \in Entries : (current_index <= i /\ i < current_index') => ~Owed(i)'

PaddingGiven(e) ==
    IF e.padding_bytes.some THEN PadLen(e.read_bytes) - BLen(e.padding_bytes.v) ELSE 0

\* The header bytes a lazily encoded entry has given: its paths are short in
\* every append made here, so that its header is one block.
LazyHeaderGiven(e) ==
    IF e.cached_header_bytes.some THEN BLOCK - BLen(e.cached_header_bytes.v) ELSE 0

\* The bytes the entry at index i has given to reads.
Given(i) ==
    CASE i \in DOMAIN stream_data ->
            BLen(queued[i + 1].hdr) - BLen(stream_data[i].encoded_header)
                + stream_data[i].read_bytes + PaddingGiven(stream_data[i])
      [] i \in DOMAIN stream_link ->
            BLen(queued[i + 1].hdr) - BLen(stream_link[i].encoded_header)
      [] i \in DOMAIN stream_special_file -> LazyHeaderGiven(stream_special_file[i])
      [] i \in DOMAIN stream_files ->
            LazyHeaderGiven(stream_files[i]) + stream_files[i].read_bytes
                + PaddingGiven(stream_files[i])
      [] OTHER -> 0

RECURSIVE GivenUpTo(_)
GivenUpTo(n) == IF n = 0 THEN 0 ELSE Given(n - 1) + GivenUpTo(n - 1)

\* The trailer bytes returned so far: what was returned beyond the bytes the
\* entries gave.
TrailerReturned == BLen(out) - GivenUpTo(index_counter)

C20_Arithmetic ==
    /\ finish_bytes_remaining \in 0..FINISH_BYTES
    /\ ~last.failed => finish_bytes_remaining + TrailerReturned = FINISH_BYTES

\* C20: in every reachable state finish_bytes_remaining and the trailer bytes
\* already returned add up to FINISH_BYTES; the counter never goes below 0, a
\* read takes from it exactly the trailer bytes it copies, and it is taken
\* from only when no queued entry remains to be processed: once a trailer byte
\* is returned, every entry queued before that has been returned in full.
C20_TrailerCounter ==
    /\ C20_Arithmetic
    /\ finish_bytes_remaining < FINISH_BYTES =>
          \A i \in Entries : queued[i + 1].trailer \/ ~Owed(i)

\* The header bytes the path-backed entry e has still to give: what is left of
\* its cached header, or the header the next read encodes.
C21_Header(e) ==
    IF e.cached_header_bytes.some THEN Ok(e.cached_header_bytes.v)
    ELSE IF prepare_file_header(fs, e.path, e.alternative_name, e.mode, e.follow).err
    THEN Err("header")
    ELSE Ok(prepare_file_header(fs, e.path, e.alternative_name, e.mode, e.follow).bytes)

\* A read with result r has left the entry at index i, whose header bytes h
\* were still to give, having given h and nothing else: no payload is read and
\* no padding is made.
C21_Skip(r, i, h) ==
    /\ r.st.ci > i
    /\ r.st.sf[i].read_bytes = stream_files[i].read_bytes
    /\ r.st.sf[i].padding_bytes = None
    /\ r.st.sf[i].cached_header_bytes = Some(<<>>)
    /\ r.st.marks[i + 1] = BLen(out) + BLen(h) - (FINISH_BYTES - finish_bytes_remaining)
    /\ r.ctl # "err" => TakeB(r.buf, BLen(h)) = h

\* The stat of the payload phase is taken when the loop is entered with room
\* in the buffer and no padding buffer made.
C21_StatTaken(e, L) ==
    /\ ~e.padding_bytes.some
    /\ ~C21_Header(e).err
    /\ BLen(C21_Header(e).v) < L
    /\ ~get_stat(fs, e.path, e.follow).err

\* C21: for a RegularFromPath entry, whenever the stat taken in the payload
\* phase reports that the path is not a regular file, the read goes on to the
\* next entry without reading payload and without returning padding, also
\* when earlier reads have returned payload bytes of the entry.
C21_NotRegularSkipped ==
    \A L \in BufSizes :
        (/\ current_index \in DOMAIN stream_files
         /\ C21_StatTaken(stream_files[current_index], L)
         /\ ~is_file(get_stat(fs, stream_files[current_index].path,
                              stream_files[current_index].follow).v)) =>
            C21_Skip(ReadCall(Producer, L), current_index,
                     C21_Header(stream_files[current_index]).v)

\* A read has left a file entry of which part of the payload was returned
\* before its path became a directory: no padding buffer was made.
C21_Witness ==
    /\ current_index >= 1
    /\ 0 \in DOMAIN stream_files
    /\ stream_files[0].read_bytes \in 1..(FileSize - 1)
    /\ stream_files[0].padding_bytes = None
    /\ fs[P_f].kind = "dir"
    /\ last.op = "read" /\ last.res = "ok"

\* Every index below index_counter is a key of exactly one of the four maps,
\* and no other key exists.
C22_Maps ==
    /\ Entries = 0..(index_counter - 1)
    /\ DOMAIN stream_files \cap DOMAIN stream_data = {}
    /\ DOMAIN stream_files \cap DOMAIN stream_special_file = {}
    /\ DOMAIN stream_files \cap DOMAIN stream_link = {}
    /\ DOMAIN stream_data \cap DOMAIN stream_special_file = {}
    /\ DOMAIN stream_data \cap DOMAIN stream_link = {}
    /\ DOMAIN stream_special_file \cap DOMAIN stream_link = {}

\* The append calls that queue one entry.
C22_SingleAppends ==
    {"append", "append_data", "append_link", "append_file", "append_path",
     "append_path_with_name", "append_dir"}

C22_Step ==
    /\ C22_Maps'
    /\ (last'.op \in C22_SingleAppends /\ last'.res = "ok") =>
          /\ index_counter' = index_counter + 1
          /\ Entries' = Entries \cup {index_counter}
    /\ (last'.op \in C22_SingleAppends /\ last'.res = "err") =>
          UNCHANGED <<index_counter, stream_files, stream_data, stream_special_file,
                      stream_link>>

\* C22: after any sequence of append calls, every index in
\* 0..index_counter-1 is a key of exactly one of the four entry maps and no key
\* >= index_counter exists; each successful single-entry append increases
\* index_counter by exactly 1, and an append that returns an error leaves
\* index_counter and the four maps unchanged.
C22_IndexMaps == [][C22_Step]_vars

\* An append_file call has failed after another append had queued an entry.
C22_Witness ==
    /\ last.op = "append_file" /\ last.res = "err"
    /\ index_counter = 1
    /\ Entries = {0}

RECURSIVE C23_PreOrder(_, _), C23_Forest(_, _)

\* The depth-first pre-order of the tree at p: p, then the subtree of each of
\* its children, the child read_dir yields last coming first.
C23_PreOrder(p, rev) ==
    <<p>> \o (IF Descended(p) THEN C23_Forest(Reverse(ReadDir(fs, p, rev)), rev) ELSE <<>>)

C23_Forest(l, rev) ==
    IF l = <<>> THEN <<>> ELSE C23_PreOrder(Head(l), rev) \o C23_Forest(Tail(l), rev)

\* The source paths of the entries a walk with result r has added to the queue.
C23_Added(r) ==
    [i \in 1..(Len(r.b.queued) - Len(queued)) |-> r.b.queued[Len(queued) + i].path]

\* The entries added are, in order, those of the pre-order expected: all of
\* them when the walk succeeds, the first of them when it fails on a node; and
\* the entry of a directory stands before the entry of every node beneath it.
C23_InOrder(added, expected, err) ==
    /\ Len(added) <= Len(expected)
    /\ added = SubSeq(expected, 1, Len(added))
    /\ ~err => Len(added) = Len(expected)
    /\ \A i, j \in 1..Len(added) :
          (added[i] # added[j] /\ HasPrefix(added[j], added[i])) => i < j

\* The walk with result r against the pre-order expected of it.
C23_Checked(r, expected) == C23_InOrder(C23_Added(r), expected, r.err)

\* C23: in the queue built by append_dir_all every directory's own entry has
\* a smaller index than the entries of all nodes beneath it, and the order is
\* the depth-first pre-order of the LIFO stack: the child pushed last is
\* queued first, with its whole subtree, before its siblings.
C23_WalkOrder ==
    \A root \in WalkRoots, src \in WalkSrcs, rev \in BOOLEAN :
        index_counter < MaxEntries =>
            C23_Checked(append_dir_all(Builder, root, src, rev),
                        IF root = EmptyPath THEN Tail(C23_PreOrder(src, rev))
                        ELSE C23_PreOrder(src, rev))

\* A walk of t has queued the directory t/u and the file beneath it before
\* the two siblings of t/u, which read_dir had yielded before it.
C23_Witness ==
    /\ last.op = "append_dir_all" /\ last.res = "ok" /\ last.path = P_t
    /\ Len(queued) = 5
    /\ [i \in 1..5 |-> queued[i].path] = <<P_t, P_tu, P_tuv, P_tl, P_td>>

\* A read that ends in an error leaves current_index where it was and takes no
\* byte from any entry.
C24_Step ==
    (last'.op = "read" /\ last'.res = "err") =>
        /\ current_index' = current_index
        /\ \A i \in Entries : Given(i)' = Given(i)

\* C24: every byte that read removes from an entry's header buffer, padding
\* buffer or payload source, and every advance of current_index, is accounted
\* for in the count returned by a successful read: a read that ends in an
\* error leaves current_index, the header and padding buffers and every
\* payload cursor as they were before the call.
C24_ErrorKeepsState == [][C24_Step]_vars

\* Whether the entry was queued before any trailer byte was returned.
C25_BeforeTrailer(q) == ~q.trailer

\* C25: for any interleaving of append and read calls, an entry appended
\* before any trailer byte has been returned is emitted in full, after all
\* earlier entries and before the first trailer byte: once a trailer byte has
\* been returned, no read having failed and the filesystem being as it was,
\* the bytes returned begin with all such entries, in the order of the queue.
C25_LateAppendEmitted ==
    (finish_bytes_remaining < FINISH_BYTES /\ ~last.failed /\ fs_changes = 0) =>
        TakeB(out, BLen(ExpectedEntries(SelectSeq(queued, C25_BeforeTrailer), fs)))
            = ExpectedEntries(SelectSeq(queued, C25_BeforeTrailer), fs)

\* Once a trailer byte has been returned, a step takes no byte from any entry.
C26_NoEntryBytes ==
    finish_bytes_remaining < FINISH_BYTES =>
        \A i \in Entries' : Given(i)' = (IF i \in Entries THEN Given(i) ELSE 0)

\* Once the whole trailer has been returned, as it has when a read has
\* returned 0, a read returns 0.
C26_Step ==
    /\ C26_NoEntryBytes
    /\ (finish_bytes_remaining = 0 /\ last'.op = "read") => last'.res = "eof"

\* C26: for any interleaving of append and read calls, once a trailer byte has
\* been returned no header, payload or padding byte of any entry is returned
\* afterwards, and once a read has returned 0 every later read returns 0,
\* whatever entries are appended in the meantime.
C26_TrailerIsFinal == [][C26_Step]_vars

\* A read returns at least one byte of the archive, which is finite, or it
\* returns 0 when the whole archive has been returned; it does not fail.
C27_Step ==
    last'.op = "read" =>
        /\ last'.res # "err"
        /\ BLen(out') <= BLen(ExpectedArchive')
        /\ \/ BLen(out') > BLen(out)
           \/ last'.res = "eof" /\ BLen(out) = BLen(ExpectedArchive)

\* C27: if no entry is appended after reading starts, every payload source
\* eventually reports EOF and no read fails, then repeated reads with
\* non-empty buffers reach EOF (a read returning 0) after finitely many calls,
\* for every sequence of buffer sizes: each read before EOF returns at least
\* one byte of a finite archive, and a read returning 0 is reached.
C27_Terminates == [][C27_Step]_vars /\ <>AtEOF

\* Reads have reached EOF on a queue of a stream given in chunks and a
\* path-backed file.
C27_Witness ==
    /\ AtEOF
    /\ Len(queued) = 2
    /\ queued[1].kind = "data" /\ queued[1].src.size = FileSize
    /\ queued[2].kind = "file"
    /\ BLen(out) = BLen(ExpectedArchive)

\* Every queued RegularFromPath and SpecialFile entry holds the mode and the
\* follow flag that were in force when it was enqueued.
C28_Kept ==
    /\ \A i \in DOMAIN stream_files :
          /\ stream_files[i].mode = queued[i + 1].mode
          /\ stream_files[i].follow = queued[i + 1].follow
    /\ \A i \in DOMAIN stream_special_file :
          /\ stream_special_file[i].mode = queued[i + 1].mode
          /\ stream_special_file[i].follow = queued[i + 1].follow

\* The read with result r that synthesizes the header of the entry enc was
\* queued for begins with that header, made with the mode and the follow flag
\* of the enqueue.
C28_Synthesized(r, enc) ==
    (r.ctl # "err" /\ ~enc.err) => TakeB(r.buf, BLen(enc.bytes)) = enc.bytes

C28_AtRead ==
    /\ (/\ current_index \in DOMAIN stream_files
        /\ ~stream_files[current_index].cached_header_bytes.some) =>
          C28_Synthesized(ReadCall(Producer, BigBuf),
                          prepare_file_header(fs, queued[current_index + 1].path,
                                              queued[current_index + 1].name,
                                              queued[current_index + 1].mode,
                                              queued[current_index + 1].follow))
    /\ (/\ current_index \in DOMAIN stream_special_file
        /\ ~stream_special_file[current_index].cached_header_bytes.some) =>
          C28_Synthesized(ReadCall(Producer, BigBuf),
                          prepare_special_header(fs, queued[current_index + 1].path,
                                                 queued[current_index + 1].mode,
                                                 queued[current_index + 1].follow))

C28_Step ==
    /\ C28_Kept /\ C28_Kept'
    /\ C28_AtRead
    /\ last'.op \in {"mode", "follow_symlinks"} =>
          UNCHANGED <<index_counter, current_index, stream_files, stream_data,
                      stream_special_file, stream_link, queued, out>>

\* C28: mode() and follow_symlinks() affect only entries enqueued after the
\* call: every queued RegularFromPath or SpecialFile entry keeps the header
\* mode and the follow flag in force when it was enqueued, and its header is
\* made with them at read time; neither call changes index_counter,
\* current_index or any queued entry.
C28_ModeFrame == [][C28_Step]_vars

\* A walk made while symlinks were followed, in mode Complete, has been read
\* after both settings were changed: the header of the symlink t/l is the one
\* of the file it points to, in mode Complete.
C28_Witness ==
    /\ last.op = "read" /\ last.res = "ok"
    /\ mode = "Deterministic" /\ ~follow
    /\ Len(queued) = 5
    /\ \A i \in 1..5 : queued[i].mode = "Complete" /\ queued[i].follow
    /\ queued[4].path = P_tl
    /\ out = ExpectedArchive
    /\ \E k \in 1..Len(out) :
          /\ out[k].t = "H"
          /\ out[k].d.name = Join(P_r, <<Comp("l", 1)>>)
          /\ out[k].d.kind = "file" /\ out[k].d.mode = "Complete"

====
